---- MODULE Spec2Model ----
(***************************************************************************)
(* Run lifecycle, per-user aggregates and achievement evaluation of the    *)
(* runner backend (src/src/routes/messages.ts, run routes).                *)
(*                                                                         *)
(* Every handler is written once, as a sequence of steps, one step per     *)
(* awaited database call.  Spec runs each handler to completion in one     *)
(* action (requests served one at a time); ConcSpec lets two requests      *)
(* interleave between their awaited calls.                                 *)
(*                                                                         *)
(* Units: distances and distance thresholds are in 1/100 km, paces in      *)
(* 1/100 min/km, so that Math.floor(distance * 10) is (distance \div 10).  *)
(***************************************************************************)
EXTENDS Integers, Sequences, FiniteSets, Bags, TLC

VARIABLES users, runs, userAchievements, achievements, notifications,
          clock, nextRunId, procs, requests, pager, geo

vars == <<users, runs, userAchievements, achievements, notifications,
          clock, nextRunId, procs, requests, pager, geo>>

----------------------------------------------------------------------------
(* Bounds *)

MaxRuns == 2

MaxCoords == 2

MaxRequests == 4

MaxItems == 3

MaxLimit == 3

MaxAge == 48

----------------------------------------------------------------------------
(* Values *)

Users == {"u1", "u2"}

(* the users who record runs; the others only call on runs they do not own *)
Runners == {"u1"}

Procs == {1, 2}

Null == 0

Undef == 999

AchIds == {1, 2, 3, 4}

Achievement(a) ==
  CASE a = 1 -> [type |-> "TOTAL_RUNS",          threshold |-> 1,   xpReward |-> 50]
    [] a = 2 -> [type |-> "TOTAL_DISTANCE",      threshold |-> 500, xpReward |-> 100]
    [] a = 3 -> [type |-> "SINGLE_RUN_DISTANCE", threshold |-> 500, xpReward |-> 150]
    [] a = 4 -> [type |-> "SINGLE_RUN_PACE",     threshold |-> 500, xpReward |-> 300]

RuleSets == {{1, 2, 3, 4}}

NewUser ==
  [totalDistance |-> 0, totalRuns |-> 0, totalTime |-> 0, xp |-> 0, level |-> 1,
   isCurrentlyRunning |-> FALSE, currentRunId |-> Null,
   latitude |-> Undef, longitude |-> Undef]

NewRun(u) ==
  [userId |-> u, isCompleted |-> FALSE, isPaused |-> FALSE,
   distance |-> 0, duration |-> 0, avgPace |-> 0,
   coordinates |-> <<>>, splits |-> <<>>]

NoRun == NewRun("")

NoUserAchievement == [exists |-> FALSE, progress |-> 0, unlockedAt |-> Null]

NoBody ==
  [distance |-> 0, duration |-> 0, avgPace |-> 0, splits |-> <<>>,
   coordinates |-> <<>>, latitude |-> Undef, longitude |-> Undef]

(* Request bodies offered to the handlers *)

CompleteBodies ==
  { [NoBody EXCEPT !.distance = 0],
    [NoBody EXCEPT !.distance = 305,  !.duration = 900,   !.avgPace = 450,
                   !.splits = <<1, 2, 3>>],
    [NoBody EXCEPT !.distance = 19800, !.duration = 72000, !.avgPace = 600],
    [NoBody EXCEPT !.distance = -100, !.duration = 60] }

StartBodies ==
  { NoBody,
    [NoBody EXCEPT !.latitude = 12, !.longitude = 34],
    [NoBody EXCEPT !.latitude = 0,  !.longitude = 34] }

Coord(lat, lng, speed) == [latitude |-> lat, longitude |-> lng, speed |-> speed]

CoordBodies ==
  { [NoBody EXCEPT !.coordinates = <<Coord(13, 35, 0), Coord(12, 35, 3)>>],
    [NoBody EXCEPT !.coordinates = <<Coord(91, 34, Undef)>>] }

RunIds == 1..MaxRuns

(* achievement.findMany() has no orderBy: the rows come in an order the    *)
(* store chooses.  Two orders are offered, ascending and descending id.    *)
RECURSIVE Ascending(_)
Ascending(S) ==
  IF S = {} THEN <<>>
  ELSE LET m == CHOOSE x \in S : \A y \in S : x <= y
       IN <<m>> \o Ascending(S \ {m})

Reverse(s) == [i \in 1..Len(s) |-> s[Len(s) + 1 - i]]

FindManyOrders(S) == {Ascending(S), Reverse(Ascending(S))}

----------------------------------------------------------------------------
(* The database as one value, and a request's local state *)

DB ==
  [users |-> users, runs |-> runs, userAchievements |-> userAchievements,
   achievements |-> achievements, notifications |-> notifications,
   clock |-> clock, nextRunId |-> nextRunId]

Idle ==
  [op |-> "none", pc |-> "idle", userId |-> "", id |-> Null, body |-> NoBody,
   order |-> <<>>, run |-> NoRun, xp |-> 0, level |-> 0, newLevel |-> 0,
   snapUser |-> NewUser,
   snapAch |-> [a \in AchIds |-> NoUserAchievement],
   todo |-> <<>>, progress |-> 0, shouldUnlock |-> FALSE,
   status |-> 0, error |-> "", failAt |-> "none"]

NewReq(op, pc, u, id, body, order) ==
  [Idle EXCEPT !.op = op, !.pc = pc, !.userId = u, !.id = id, !.body = body,
               !.order = order]

(* res.json(...) / thrown error reaching the express error handler: the    *)
(* request is over, only what was answered is kept.                        *)
Respond(l, code, msg) ==
  [Idle EXCEPT !.op = l.op, !.pc = "done", !.status = code, !.error = msg]

Out(d, l) == [db |-> d, loc |-> l]

Truthy(x) == x # Undef /\ x # 0

OrZero(x) == IF Truthy(x) THEN x ELSE 0

(* the lookup by id alone, the owner left out of the where clause *)
FindFirstRun_AnyOwner(d, id, u) ==
  IF id \in DOMAIN d.runs THEN d.runs[id] ELSE NoRun

FindFirstRun(d, id, u) ==
  IF id \in DOMAIN d.runs /\ d.runs[id].userId = u THEN d.runs[id] ELSE NoRun

Found(r) == r.userId # ""

(* The users as GET /nearby sees them (position as metres north and east   *)
(* of the query centre, hours since lastLocationUpdate, privacy flags)     *)
(* and the last answer of GET /nearby                                      *)
GeoUsers == {"u1", "u2", "u3"}

NoPos == <<>>

NoPerson ==
  [pos |-> NoPos, age |-> Undef, isPublic |-> TRUE, isLocationPublic |-> TRUE]

NoGeo ==
  [people |-> [u \in GeoUsers |-> NoPerson], caller |-> "", radius |-> 0,
   result |-> <<>>]

(* What the caller of a list operation holds: the rows the where clause    *)
(* selects, the last request and its response, and the pages put together  *)
(* since a request without cursor                                          *)
NoPager ==
  [table |-> {}, op |-> "none", limit |-> 0, cursor |-> Null, status |-> 0,
   items |-> <<>>, nextCursor |-> Null, chained |-> FALSE, chain |-> <<>>,
   fetches |-> 0]

----------------------------------------------------------------------------
(* POST /start *)

StartValid(b) ==
  /\ b.latitude = Undef \/ (b.latitude >= -90 /\ b.latitude <= 90)
  /\ b.longitude = Undef \/ (b.longitude >= -180 /\ b.longitude <= 180)


StartCreateRun(d, l) ==
  LET id == d.nextRunId IN
  Out([d EXCEPT !.runs = [x \in DOMAIN d.runs \cup {id} |->
                            IF x = id THEN NewRun(l.userId) ELSE d.runs[x]],
                !.nextRunId = id + 1],
      [l EXCEPT !.id = id, !.pc = "start_user"])

StartValidate(d, l) ==
  IF StartValid(l.body) THEN StartCreateRun(d, l)
  ELSE Out(d, Respond(l, 400, "Validation failed"))

(* currentRunId left as it was *)
StartUpdateUser_NoRunId(d, l) ==
  LET loc == Truthy(l.body.latitude) /\ Truthy(l.body.longitude)
      u0  == d.users[l.userId]
      u1  == [u0 EXCEPT !.isCurrentlyRunning = TRUE]
      u2  == IF loc THEN [u1 EXCEPT !.latitude = l.body.latitude,
                                    !.longitude = l.body.longitude]
             ELSE u1
  IN Out([d EXCEPT !.users[l.userId] = u2],
         IF loc THEN [l EXCEPT !.pc = "start_coord"] ELSE Respond(l, 200, ""))

StartUpdateUser(d, l) ==
  LET loc == Truthy(l.body.latitude) /\ Truthy(l.body.longitude)
      u0  == d.users[l.userId]
      u1  == [u0 EXCEPT !.isCurrentlyRunning = TRUE, !.currentRunId = l.id]
      u2  == IF loc THEN [u1 EXCEPT !.latitude = l.body.latitude,
                                    !.longitude = l.body.longitude]
             ELSE u1
  IN Out([d EXCEPT !.users[l.userId] = u2],
         IF loc THEN [l EXCEPT !.pc = "start_coord"] ELSE Respond(l, 200, ""))

StartCreateCoord(d, l) ==
  IF l.id \notin DOMAIN d.runs
  THEN Out(d, Respond(l, 500, "Foreign key constraint failed"))
  ELSE Out([d EXCEPT !.runs[l.id].coordinates =
                        Append(@, Coord(l.body.latitude, l.body.longitude, Undef))],
           Respond(l, 200, ""))

----------------------------------------------------------------------------
(* POST /:id/pause *)

(* the check of run.isCompleted left out *)
PauseRead_IgnoresCompleted(d, l) ==
  LET run == FindFirstRun(d, l.id, l.userId) IN
  IF ~Found(run) THEN Out(d, Respond(l, 404, "Run not found"))
  ELSE Out(d, [l EXCEPT !.run = run, !.pc = "pause_update"])

PauseRead(d, l) ==
  LET run == FindFirstRun(d, l.id, l.userId) IN
  IF ~Found(run) THEN Out(d, Respond(l, 404, "Run not found"))
  ELSE IF run.isCompleted THEN Out(d, Respond(l, 400, "Run is already completed"))
  ELSE Out(d, [l EXCEPT !.run = run, !.pc = "pause_update"])

(* isPaused set instead of toggled *)
PauseUpdate_AlwaysPauses(d, l) ==
  IF l.id \notin DOMAIN d.runs
  THEN Out(d, Respond(l, 500, "Record to update not found"))
  ELSE Out([d EXCEPT !.runs[l.id].isPaused = TRUE],
           Respond(l, 200, ""))

PauseUpdate(d, l) ==
  IF l.id \notin DOMAIN d.runs
  THEN Out(d, Respond(l, 500, "Record to update not found"))
  ELSE Out([d EXCEPT !.runs[l.id].isPaused = ~l.run.isPaused],
           Respond(l, 200, ""))

----------------------------------------------------------------------------
(* POST /:id/coordinates *)

CoordValid(c) ==
  /\ c.latitude >= -90 /\ c.latitude <= 90
  /\ c.longitude >= -180 /\ c.longitude <= 180
  /\ c.speed = Undef \/ c.speed >= 0

CoordsValid(b) ==
  /\ Len(b.coordinates) >= 1
  /\ Len(b.coordinates) <= 1000
  /\ \A i \in 1..Len(b.coordinates) : CoordValid(b.coordinates[i])


CoordsRead(d, l) ==
  LET run == FindFirstRun(d, l.id, l.userId) IN
  IF ~Found(run) THEN Out(d, Respond(l, 404, "Run not found"))
  ELSE IF run.isCompleted
       THEN Out(d, Respond(l, 400, "Cannot add coordinates to completed run"))
  ELSE Out(d, [l EXCEPT !.run = run, !.pc = "coords_create"])

CoordsValidate(d, l) ==
  IF CoordsValid(l.body) THEN CoordsRead(d, l)
  ELSE Out(d, Respond(l, 400, "Validation failed"))

OrNull(x) == IF Truthy(x) THEN x ELSE Undef

CoordsData(cs) ==
  [i \in 1..Len(cs) |-> Coord(cs[i].latitude, cs[i].longitude, OrNull(cs[i].speed))]

CoordsCreateMany(d, l) ==
  IF l.id \notin DOMAIN d.runs
  THEN Out(d, Respond(l, 500, "Foreign key constraint failed"))
  ELSE Out([d EXCEPT !.runs[l.id].coordinates = @ \o CoordsData(l.body.coordinates)],
           [l EXCEPT !.pc = "coords_user"])

(* the location taken from the first coordinate of the batch *)
CoordsUpdateUser_First(d, l) ==
  LET firstCoord == l.body.coordinates[1] IN
  Out([d EXCEPT !.users[l.userId].latitude = firstCoord.latitude,
                !.users[l.userId].longitude = firstCoord.longitude],
      Respond(l, 200, ""))

CoordsUpdateUser(d, l) ==
  LET lastCoord == l.body.coordinates[Len(l.body.coordinates)] IN
  Out([d EXCEPT !.users[l.userId].latitude = lastCoord.latitude,
                !.users[l.userId].longitude = lastCoord.longitude],
      Respond(l, 200, ""))

----------------------------------------------------------------------------
(* DELETE /:id *)

(* the statistics decremented whatever the run's state *)
DeleteRead_AlwaysStats(d, l) ==
  LET run == FindFirstRun(d, l.id, l.userId) IN
  IF ~Found(run) THEN Out(d, Respond(l, 404, "Run not found"))
  ELSE Out(d, [l EXCEPT !.run = run, !.pc = "delete_stats"])

DeleteRead(d, l) ==
  LET run == FindFirstRun(d, l.id, l.userId) IN
  IF ~Found(run) THEN Out(d, Respond(l, 404, "Run not found"))
  ELSE Out(d, [l EXCEPT !.run = run,
                        !.pc = IF run.isCompleted THEN "delete_stats"
                               ELSE "delete_run"])

(* totalTime left out of the decrement *)
DeleteUserStats_KeepsTime(d, l) ==
  Out([d EXCEPT !.users[l.userId].totalDistance = @ - l.run.distance,
                !.users[l.userId].totalRuns = @ - 1,
                !.users[l.userId].xp = @ - (l.run.distance \div 10)],
      [l EXCEPT !.pc = "delete_run"])

DeleteUserStats(d, l) ==
  Out([d EXCEPT !.users[l.userId].totalDistance = @ - l.run.distance,
                !.users[l.userId].totalRuns = @ - 1,
                !.users[l.userId].totalTime = @ - l.run.duration,
                !.users[l.userId].xp = @ - (l.run.distance \div 10)],
      [l EXCEPT !.pc = "delete_run"])

DeleteRun(d, l) ==
  IF l.id \notin DOMAIN d.runs
  THEN Out(d, Respond(l, 500, "Record to delete does not exist"))
  ELSE Out([d EXCEPT !.runs = [x \in DOMAIN d.runs \ {l.id} |-> d.runs[x]]],
           Respond(l, 200, ""))

----------------------------------------------------------------------------
(* Helper: checkAchievements (called by complete) *)

Progress(a, user, runDistance, run) ==
  CASE Achievement(a).type = "TOTAL_DISTANCE"      -> user.totalDistance
    [] Achievement(a).type = "TOTAL_RUNS"          -> user.totalRuns
    [] Achievement(a).type = "SINGLE_RUN_DISTANCE" -> runDistance
    [] Achievement(a).type = "SINGLE_RUN_PACE"     -> run.avgPace

(* the thresholds compared with > where the code has >= *)
ShouldUnlock_Strict(a, user, runDistance, run) ==
  CASE Achievement(a).type = "TOTAL_DISTANCE" ->
         user.totalDistance > Achievement(a).threshold
    [] Achievement(a).type = "TOTAL_RUNS" ->
         user.totalRuns > Achievement(a).threshold
    [] Achievement(a).type = "SINGLE_RUN_DISTANCE" ->
         runDistance > Achievement(a).threshold
    [] Achievement(a).type = "SINGLE_RUN_PACE" ->
         run.avgPace > 0 /\ run.avgPace <= Achievement(a).threshold

(* the pace rule without the avgPace > 0 guard *)
ShouldUnlock_ZeroPace(a, user, runDistance, run) ==
  CASE Achievement(a).type = "TOTAL_DISTANCE" ->
         user.totalDistance >= Achievement(a).threshold
    [] Achievement(a).type = "TOTAL_RUNS" ->
         user.totalRuns >= Achievement(a).threshold
    [] Achievement(a).type = "SINGLE_RUN_DISTANCE" ->
         runDistance >= Achievement(a).threshold
    [] Achievement(a).type = "SINGLE_RUN_PACE" ->
         run.avgPace <= Achievement(a).threshold

ShouldUnlock(a, user, runDistance, run) ==
  CASE Achievement(a).type = "TOTAL_DISTANCE" ->
         user.totalDistance >= Achievement(a).threshold
    [] Achievement(a).type = "TOTAL_RUNS" ->
         user.totalRuns >= Achievement(a).threshold
    [] Achievement(a).type = "SINGLE_RUN_DISTANCE" ->
         runDistance >= Achievement(a).threshold
    [] Achievement(a).type = "SINGLE_RUN_PACE" ->
         run.avgPace > 0 /\ run.avgPace <= Achievement(a).threshold

(* Top of the for loop: achievements already unlocked in the snapshot are  *)
(* skipped without awaiting; the next awaited call is the upsert of the    *)
(* first one that is not, or the completion notification after the loop.   *)
(* the "already unlocked" skip left out *)
AchLoop_NoSkip(l) ==
  IF l.todo = <<>> THEN [l EXCEPT !.pc = "complete_notify"]
  ELSE [l EXCEPT !.pc = "ach_upsert",
                 !.progress = Progress(Head(l.todo), l.snapUser,
                                       OrZero(l.body.distance), l.run),
                 !.shouldUnlock = ShouldUnlock(Head(l.todo), l.snapUser,
                                               OrZero(l.body.distance), l.run)]

RECURSIVE AchLoop(_)
AchLoop(l) ==
  IF l.todo = <<>> THEN [l EXCEPT !.pc = "complete_notify"]
  ELSE IF l.snapAch[Head(l.todo)].unlockedAt # Null
       THEN AchLoop([l EXCEPT !.todo = Tail(@)])
  ELSE [l EXCEPT !.pc = "ach_upsert",
                 !.progress = Progress(Head(l.todo), l.snapUser,
                                       OrZero(l.body.distance), l.run),
                 !.shouldUnlock = ShouldUnlock(Head(l.todo), l.snapUser,
                                               OrZero(l.body.distance), l.run)]

(* Time moves on between two evaluation passes: new Date() in a later pass *)
(* is later than in an earlier one.                                        *)
AchRead(d, l) ==
  Out([d EXCEPT !.clock = @ + 1],
      AchLoop([l EXCEPT !.snapUser = d.users[l.userId],
                        !.snapAch = [a \in AchIds |->
                                       d.userAchievements[<<l.userId, a>>]],
                        !.todo = SelectSeq(l.order,
                                           LAMBDA a : a \in d.achievements)]))

Upsert(ua, progress, shouldUnlock, now) ==
  IF ua.exists
  THEN [ua EXCEPT !.progress = progress,
                  !.unlockedAt = IF shouldUnlock THEN now ELSE @]
  ELSE [exists |-> TRUE, progress |-> progress,
        unlockedAt |-> IF shouldUnlock THEN now ELSE Null]

AchUpsert(d, l) ==
  LET a   == Head(l.todo)
      key == <<l.userId, a>>
      d1  == [d EXCEPT !.userAchievements[key] =
                          Upsert(@, l.progress, l.shouldUnlock, d.clock)]
  IN IF l.shouldUnlock /\ l.snapAch[a].unlockedAt = Null
     THEN Out(d1, [l EXCEPT !.pc = "ach_award"])
     ELSE Out(d1, AchLoop([l EXCEPT !.todo = Tail(@)]))

AchAward(d, l) ==
  Out([d EXCEPT !.users[l.userId].xp = @ + Achievement(Head(l.todo)).xpReward],
      [l EXCEPT !.pc = "ach_notify"])

Notification(u, type, title, runId, achievementId, level) ==
  [userId |-> u, type |-> type, title |-> title, runId |-> runId,
   achievementId |-> achievementId, level |-> level]

(* the loop left after the first unlock *)
AchNotify_Stops(d, l) ==
  Out([d EXCEPT !.notifications =
         @ (+) SetToBag({Notification(l.userId, "ACHIEVEMENT",
                                      "Achievement Unlocked!", Null,
                                      Head(l.todo), 0)})],
      AchLoop([l EXCEPT !.todo = <<>>]))

AchNotify(d, l) ==
  Out([d EXCEPT !.notifications =
         @ (+) SetToBag({Notification(l.userId, "ACHIEVEMENT",
                                      "Achievement Unlocked!", Null,
                                      Head(l.todo), 0)})],
      AchLoop([l EXCEPT !.todo = Tail(@)]))

----------------------------------------------------------------------------
(* POST /:id/complete *)

(* distance: z.number() without min(0) *)
CompleteValid_AnyDistance(b) ==
  /\ b.duration >= 0
  /\ b.avgPace >= 0
  /\ \A i \in 1..Len(b.splits) : b.splits[i] >= 1

CompleteValid(b) ==
  /\ b.distance >= 0
  /\ b.duration >= 0
  /\ b.avgPace >= 0
  /\ \A i \in 1..Len(b.splits) : b.splits[i] >= 1


CompleteRead(d, l) ==
  LET run == FindFirstRun(d, l.id, l.userId) IN
  IF ~Found(run) THEN Out(d, Respond(l, 404, "Run not found"))
  ELSE IF run.isCompleted THEN Out(d, Respond(l, 400, "Run is already completed"))
  ELSE Out(d, [l EXCEPT !.pc = "complete_run"])

CompleteValidate(d, l) ==
  IF CompleteValid(l.body) THEN CompleteRead(d, l)
  ELSE Out(d, Respond(l, 400, "Validation failed"))

CompleteUpdateRun(d, l) ==
  IF l.id \notin DOMAIN d.runs
  THEN Out(d, Respond(l, 500, "Record to update not found"))
  ELSE LET r == [d.runs[l.id] EXCEPT !.distance = OrZero(l.body.distance),
                                     !.duration = OrZero(l.body.duration),
                                     !.avgPace = OrZero(l.body.avgPace),
                                     !.isCompleted = TRUE,
                                     !.isPaused = FALSE]
       IN Out([d EXCEPT !.runs[l.id] = r],
              [l EXCEPT !.run = r,
                        !.pc = IF Len(l.body.splits) > 0 THEN "complete_splits"
                               ELSE "complete_stats"])

CompleteCreateSplits(d, l) ==
  IF l.id \notin DOMAIN d.runs
  THEN Out(d, Respond(l, 500, "Foreign key constraint failed"))
  ELSE Out([d EXCEPT !.runs[l.id].splits = @ \o l.body.splits],
           [l EXCEPT !.pc = "complete_stats"])

NewLevel(xp) == (xp \div 1000) + 1

CompleteUserStats(d, l) ==
  LET u == [d.users[l.userId] EXCEPT
              !.totalDistance = @ + OrZero(l.body.distance),
              !.totalRuns = @ + 1,
              !.totalTime = @ + OrZero(l.body.duration),
              !.xp = @ + (OrZero(l.body.distance) \div 10),
              !.isCurrentlyRunning = FALSE,
              !.currentRunId = Null]
  IN Out([d EXCEPT !.users[l.userId] = u],
         [l EXCEPT !.xp = u.xp, !.level = u.level, !.newLevel = NewLevel(u.xp),
                   !.pc = IF NewLevel(u.xp) > u.level THEN "complete_level"
                          ELSE "ach_read"])

CompleteUpdateLevel(d, l) ==
  Out([d EXCEPT !.users[l.userId].level = l.newLevel],
      [l EXCEPT !.pc = "complete_levelup"])

(* the notification carrying the level after the one held before *)
CompleteLevelNotify_NextLevel(d, l) ==
  Out([d EXCEPT !.notifications =
         @ (+) SetToBag({Notification(l.userId, "ACHIEVEMENT", "Level Up!",
                                      l.id, Null, l.level + 1)})],
      [l EXCEPT !.pc = "ach_read"])

CompleteLevelNotify(d, l) ==
  Out([d EXCEPT !.notifications =
         @ (+) SetToBag({Notification(l.userId, "ACHIEVEMENT", "Level Up!",
                                      l.id, Null, l.newLevel)})],
      [l EXCEPT !.pc = "ach_read"])

CompleteNotify(d, l) ==
  Out([d EXCEPT !.notifications =
         @ (+) SetToBag({Notification(l.userId, "RUN_COMPLETED", "Run Completed",
                                      l.id, Null, 0)})],
      Respond(l, 200, ""))

----------------------------------------------------------------------------
(* One awaited call of a request, and a request run to its response *)

Call(d, l) ==
  CASE l.pc = "start"             -> StartValidate(d, l)
    [] l.pc = "start_user"        -> StartUpdateUser(d, l)
    [] l.pc = "start_coord"       -> StartCreateCoord(d, l)
    [] l.pc = "pause"             -> PauseRead(d, l)
    [] l.pc = "pause_update"      -> PauseUpdate(d, l)
    [] l.pc = "coords"            -> CoordsValidate(d, l)
    [] l.pc = "coords_create"     -> CoordsCreateMany(d, l)
    [] l.pc = "coords_user"       -> CoordsUpdateUser(d, l)
    [] l.pc = "complete"          -> CompleteValidate(d, l)
    [] l.pc = "complete_run"      -> CompleteUpdateRun(d, l)
    [] l.pc = "complete_splits"   -> CompleteCreateSplits(d, l)
    [] l.pc = "complete_stats"    -> CompleteUserStats(d, l)
    [] l.pc = "complete_level"    -> CompleteUpdateLevel(d, l)
    [] l.pc = "complete_levelup"  -> CompleteLevelNotify(d, l)
    [] l.pc = "ach_read"          -> AchRead(d, l)
    [] l.pc = "ach_upsert"        -> AchUpsert(d, l)
    [] l.pc = "ach_award"         -> AchAward(d, l)
    [] l.pc = "ach_notify"        -> AchNotify(d, l)
    [] l.pc = "complete_notify"   -> CompleteNotify(d, l)
    [] l.pc = "delete"            -> DeleteRead(d, l)
    [] l.pc = "delete_stats"      -> DeleteUserStats(d, l)
    [] l.pc = "delete_run"        -> DeleteRun(d, l)

(* the awaited call rejects: nothing is caught in the handlers, the error  *)
(* reaches the express error handler and the request ends, with what it    *)
(* has written so far left as it is                                        *)
Throw(d, l) == Out(d, Respond(l, 500, l.pc))

(* a failure handler that takes the completion back *)
Step_Compensates(d, l) ==
  IF l.pc = l.failAt
  THEN IF l.id \in DOMAIN d.runs
       THEN Out([d EXCEPT !.runs[l.id].isCompleted = FALSE], Respond(l, 500, l.pc))
       ELSE Throw(d, l)
  ELSE Call(d, l)

Step(d, l) ==
  IF l.pc = l.failAt THEN Throw(d, l) ELSE Call(d, l)

RECURSIVE Handle(_, _)
Handle(d, l) ==
  IF l.pc = "done" THEN Out(d, l)
  ELSE LET s == Step(d, l) IN Handle(s.db, s.loc)

Commit(d) ==
  /\ users' = d.users
  /\ runs' = d.runs
  /\ userAchievements' = d.userAchievements
  /\ achievements' = d.achievements
  /\ notifications' = d.notifications
  /\ clock' = d.clock
  /\ nextRunId' = d.nextRunId

----------------------------------------------------------------------------
(* Requests served one at a time: each action is one whole handler *)

Init ==
  /\ users = [u \in Users |-> NewUser]
  /\ runs = <<>>
  /\ userAchievements = [k \in Users \X AchIds |-> NoUserAchievement]
  /\ achievements \in RuleSets
  /\ notifications = EmptyBag
  /\ clock = 0
  /\ nextRunId = 1
  /\ procs = [p \in Procs |-> Idle]
  /\ requests = 0
  /\ pager = NoPager
  /\ geo = NoGeo

Serve(req) ==
  LET r == Handle(DB, req) IN
  /\ procs[1].pc = "idle"
  /\ Commit(r.db)
  /\ procs' = [procs EXCEPT ![1] = r.loc]
  /\ UNCHANGED <<requests, pager, geo>>

Start(u, b) ==
  /\ nextRunId <= MaxRuns
  /\ Serve(NewReq("start", "start", u, Null, b, <<>>))

Pause(u, id) ==
  Serve(NewReq("pause", "pause", u, id, NoBody, <<>>))

AddCoordinates(u, id, b) ==
  /\ id \in DOMAIN runs =>
       Len(runs[id].coordinates) + Len(b.coordinates) <= MaxCoords
  /\ Serve(NewReq("coordinates", "coords", u, id, b, <<>>))

Complete(u, id, b, order) ==
  Serve(NewReq("complete", "complete", u, id, b, order))

Delete(u, id) ==
  Serve(NewReq("delete", "delete", u, id, NoBody, <<>>))

(* The caller has the response; the connection is free for the next request *)
Receive(p) ==
  /\ procs[p].pc = "done"
  /\ procs' = [procs EXCEPT ![p] = Idle]
  /\ UNCHANGED <<users, runs, userAchievements, achievements, notifications,
                 clock, nextRunId, requests, pager, geo>>

Next ==
  \/ \E u \in Runners, b \in StartBodies : Start(u, b)
  \/ \E u \in Users, id \in RunIds : Pause(u, id)
  \/ \E u \in Users, id \in RunIds, b \in CoordBodies : AddCoordinates(u, id, b)
  \/ \E u \in Users, id \in RunIds, b \in CompleteBodies,
        order \in FindManyOrders(achievements) : Complete(u, id, b, order)
  \/ \E u \in Users, id \in RunIds : Delete(u, id)
  \/ \E p \in Procs : Receive(p)

Spec == Init /\ [][Next]_vars

----------------------------------------------------------------------------
(* Two requests in flight: a request gives way to the other one at each    *)
(* awaited database call.                                                  *)

ConcCompleteBodies == {b \in CompleteBodies : b.distance > 0}

ConcStartBodies == {NoBody}

ConcCoordBodies == {b \in CoordBodies : CoordsValid(b)}

(* connection 2 is taken only while connection 1 is in use *)
Free(p) ==
  /\ procs[p].pc = "idle"
  /\ p = 2 => procs[1].pc # "idle"

Begin(p, req) ==
  LET s == Step(DB, req) IN
  /\ Free(p)
  /\ requests < MaxRequests
  /\ Commit(s.db)
  /\ procs' = [procs EXCEPT ![p] = s.loc]
  /\ requests' = requests + 1
  /\ UNCHANGED <<pager, geo>>

BeginStart(p, u, b) ==
  /\ nextRunId <= MaxRuns
  /\ Begin(p, NewReq("start", "start", u, Null, b, <<>>))

BeginPause(p, u, id) ==
  Begin(p, NewReq("pause", "pause", u, id, NoBody, <<>>))

BeginCoordinates(p, u, id, b) ==
  /\ id \in DOMAIN runs =>
       Len(runs[id].coordinates) + Len(b.coordinates) <= MaxCoords
  /\ Begin(p, NewReq("coordinates", "coords", u, id, b, <<>>))

BeginComplete(p, u, id, b, order) ==
  Begin(p, NewReq("complete", "complete", u, id, b, order))

BeginDelete(p, u, id) ==
  Begin(p, NewReq("delete", "delete", u, id, NoBody, <<>>))

Continue(p) ==
  /\ procs[p].pc \notin {"idle", "done"}
  /\ LET s == Step(DB, procs[p]) IN
       /\ Commit(s.db)
       /\ procs' = [procs EXCEPT ![p] = s.loc]
       /\ UNCHANGED <<requests, pager, geo>>

ConcNext ==
  \/ \E p \in Procs, u \in Runners, b \in ConcStartBodies : BeginStart(p, u, b)
  \/ \E p \in Procs, u \in Runners, id \in RunIds : BeginPause(p, u, id)
  \/ \E p \in Procs, u \in Runners, id \in RunIds, b \in ConcCoordBodies :
        BeginCoordinates(p, u, id, b)
  \/ \E p \in Procs, u \in Runners, id \in RunIds, b \in ConcCompleteBodies :
        BeginComplete(p, u, id, b, Ascending(achievements))
  \/ \E p \in Procs, u \in Runners, id \in RunIds : BeginDelete(p, u, id)
  \/ \E p \in Procs : Continue(p)
  \/ \E p \in Procs : Receive(p)

ConcSpec == Init /\ [][ConcNext]_vars

----------------------------------------------------------------------------
(* Runs started and completed one request at a time, where one awaited     *)
(* call of a completion may reject (the store or the connection fails).    *)

FailPoints ==
  {"complete_run", "complete_splits", "complete_stats", "complete_level",
   "complete_levelup", "ach_read", "ach_upsert", "ach_award", "ach_notify",
   "complete_notify"}

NotifyPoints == {"complete_levelup", "ach_notify", "complete_notify"}

(* the calls made once the run is COMPLETED and the aggregates are updated *)
AfterCommitPoints == FailPoints \ {"complete_run", "complete_splits", "complete_stats"}

FailCompleteBodies == {b \in CompleteBodies : b.distance > 0}

CompleteReq(u, id, b, order, f) ==
  [NewReq("complete", "complete", u, id, b, order) EXCEPT !.failAt = f]

CompleteFailing(u, id, b, order, f) ==
  Serve(CompleteReq(u, id, b, order, f))

FailNext ==
  \/ \E u \in Runners : Start(u, NoBody)
  \/ \E u \in Runners, id \in RunIds, b \in FailCompleteBodies :
        Complete(u, id, b, Ascending(achievements))
  \/ \E u \in Runners, id \in RunIds, b \in FailCompleteBodies, f \in FailPoints :
        CompleteFailing(u, id, b, Ascending(achievements), f)
  \/ \E p \in Procs : Receive(p)

FailSpec == Init /\ [][FailNext]_vars

----------------------------------------------------------------------------
(* Runs started, completed and deleted one request at a time, with the     *)
(* achievement table holding either the one 5 km TOTAL_DISTANCE rule or    *)
(* the four seeded rules, and runs of 5 km and 198 km.                     *)

RewardRuleSets == {{2}, {1, 2, 3, 4}}

FiveKm == [NoBody EXCEPT !.distance = 500, !.duration = 1500, !.avgPace = 300]

RewardBodies ==
  { FiveKm,
    [NoBody EXCEPT !.distance = 19800, !.duration = 72000, !.avgPace = 600] }

RewardInit ==
  /\ users = [u \in Users |-> NewUser]
  /\ runs = <<>>
  /\ userAchievements = [k \in Users \X AchIds |-> NoUserAchievement]
  /\ achievements \in RewardRuleSets
  /\ notifications = EmptyBag
  /\ clock = 0
  /\ nextRunId = 1
  /\ procs = [p \in Procs |-> Idle]
  /\ requests = 0
  /\ pager = NoPager
  /\ geo = NoGeo

RewardNext ==
  \/ \E u \in Runners : Start(u, NoBody)
  \/ \E u \in Runners, id \in RunIds, b \in RewardBodies,
        order \in FindManyOrders(achievements) : Complete(u, id, b, order)
  \/ \E u \in Runners, id \in RunIds : Delete(u, id)
  \/ \E p \in Procs : Receive(p)

RewardSpec == RewardInit /\ [][RewardNext]_vars

----------------------------------------------------------------------------
(* Cursor-paginated lists: GET /notifications, GET /posts/feed,            *)
(* GET /conversations/:id, GET /runs.  The rows are those the where clause *)
(* of the request selects; they are not changed between two requests.      *)
(* Rows have distinct createdAt values.                                    *)

ItemIds == 1..MaxItems

Tables ==
  UNION { { {[id |-> i, createdAt |-> f[i]] : i \in 1..n} :
              f \in {g \in [1..n -> 1..n] :
                       \A i, j \in 1..n : i # j => g[i] # g[j]} } :
          n \in 0..MaxItems }

Cursors == {Null} \cup ItemIds

Limits == (-1)..MaxLimit

(* orderBy: { createdAt: 'desc' } *)
RECURSIVE OrderByCreatedAtDesc(_)
OrderByCreatedAtDesc(S) ==
  IF S = {} THEN <<>>
  ELSE LET r == CHOOSE x \in S : \A y \in S : y.createdAt <= x.createdAt
       IN <<r>> \o OrderByCreatedAtDesc(S \ {r})

Take(seq, n) == SubSeq(seq, 1, IF n < Len(seq) THEN n ELSE Len(seq))

Drop(seq, n) == SubSeq(seq, n + 1, Len(seq))

TakeLast(seq, n) == Drop(seq, IF n < Len(seq) THEN Len(seq) - n ELSE 0)

DropLast(seq, n) == SubSeq(seq, 1, Len(seq) - n)

(* prisma findMany({ orderBy, cursor: { id }, skip, take }): the ordered    *)
(* rows from the cursor row on (none when no row has the cursor's id),     *)
(* without the first skip of them, cut to take rows; a negative take reads *)
(* the other way: the rows up to the cursor row, without the last skip of  *)
(* them, cut to the last -take.                                            *)
FindMany(table, cursor, skip, take) ==
  LET all == OrderByCreatedAtDesc(table)
      at  == {r \in table : r.id = cursor}
      c   == CHOOSE r \in at : TRUE
  IN IF cursor = Null
     THEN IF take >= 0 THEN Take(Drop(all, skip), take)
          ELSE TakeLast(DropLast(all, skip), 0 - take)
     ELSE IF at = {} THEN <<>>
     ELSE IF take >= 0
          THEN Take(Drop(SelectSeq(all, LAMBDA r : r.createdAt <= c.createdAt), skip),
                    take)
          ELSE TakeLast(DropLast(SelectSeq(all, LAMBDA r : r.createdAt >= c.createdAt),
                                 skip),
                        0 - take)

(* the cursor row not skipped *)
PageQuery_NoSkip(table, cursor, take) ==
  FindMany(table, cursor, 0, take)

(* take: Number(limit), ...(cursor && { cursor: { id: cursor }, skip: 1 }) *)
PageQuery(table, cursor, take) ==
  IF Truthy(cursor) THEN FindMany(table, cursor, 1, take)
  ELSE FindMany(table, Null, 0, take)

Ids(rows) == [i \in 1..Len(rows) |-> rows[i].id]

(* a cursor handed out with every page that is not empty *)
NextCursor_NonEmpty(rows, limit) ==
  IF Len(rows) > 0 THEN rows[Len(rows)].id ELSE Null

NextCursor(rows, limit) ==
  IF Len(rows) = limit THEN rows[Len(rows)].id ELSE Null

Listing(status, items, nextCursor) ==
  [status |-> status, items |-> items, nextCursor |-> nextCursor]

(* z.coerce.number().int().min(1).max(max) *)
LimitValid(limit, max) == limit >= 1 /\ limit <= max

(* GET /notifications: no validate middleware; with limit 0 the page is    *)
(* empty, its length equals the limit and notifications[-1].id throws      *)
NotificationsList(table, cursor, limit) ==
  LET rows == PageQuery(table, cursor, limit) IN
  IF Len(rows) = limit /\ rows = <<>> THEN Listing(500, <<>>, Null)
  ELSE Listing(200, Ids(rows), NextCursor(rows, limit))

(* GET /posts/feed *)
Feed(table, cursor, limit) ==
  LET rows == PageQuery(table, cursor, limit) IN
  IF ~LimitValid(limit, 50) THEN Listing(400, <<>>, Null)
  ELSE Listing(200, Ids(rows), NextCursor(rows, limit))

(* GET /conversations/:id: the page is answered oldest first *)
ConversationMessages(table, cursor, limit) ==
  LET rows == PageQuery(table, cursor, limit) IN
  IF ~LimitValid(limit, 50) THEN Listing(400, <<>>, Null)
  ELSE Listing(200, Reverse(Ids(rows)), NextCursor(rows, limit))

(* GET /runs: the response is the array of runs, with no nextCursor *)
RunsList(table, cursor, limit) ==
  LET rows == PageQuery(table, cursor, limit) IN
  IF ~LimitValid(limit, 100) THEN Listing(400, <<>>, Null)
  ELSE Listing(200, Ids(rows), Undef)

(* One list request and what its caller then holds.  The pages are put     *)
(* together from a request without cursor on, as long as each request      *)
(* passes the nextCursor of the one before with the same limit.            *)
Fetch(op, resp, cursor, limit) ==
  LET starts    == cursor = Null /\ resp.status = 200
      continues == /\ pager.chained
                   /\ pager.op = op
                   /\ pager.limit = limit
                   /\ Truthy(pager.nextCursor)
                   /\ cursor = pager.nextCursor
                   /\ resp.status = 200
  IN /\ pager' = [pager EXCEPT
                    !.op = op, !.limit = limit, !.cursor = cursor,
                    !.status = resp.status, !.items = resp.items,
                    !.nextCursor = resp.nextCursor,
                    !.chained = starts \/ continues,
                    !.chain = IF starts THEN resp.items
                              ELSE IF continues THEN @ \o resp.items
                              ELSE <<>>,
                    !.fetches = IF starts THEN 1
                                ELSE IF continues THEN @ + 1
                                ELSE 0]
     /\ UNCHANGED <<users, runs, userAchievements, achievements, notifications,
                    clock, nextRunId, procs, requests, geo>>

GetNotifications(cursor, limit) ==
  Fetch("notifications", NotificationsList(pager.table, cursor, limit), cursor, limit)

GetFeed(cursor, limit) ==
  Fetch("feed", Feed(pager.table, cursor, limit), cursor, limit)

GetConversation(cursor, limit) ==
  Fetch("conversation", ConversationMessages(pager.table, cursor, limit), cursor, limit)

GetRuns(cursor, limit) ==
  Fetch("runs", RunsList(pager.table, cursor, limit), cursor, limit)

PageInit ==
  /\ users = [u \in Users |-> NewUser]
  /\ runs = <<>>
  /\ userAchievements = [k \in Users \X AchIds |-> NoUserAchievement]
  /\ achievements \in RuleSets
  /\ notifications = EmptyBag
  /\ clock = 0
  /\ nextRunId = 1
  /\ procs = [p \in Procs |-> Idle]
  /\ requests = 0
  /\ pager \in {[NoPager EXCEPT !.table = t] : t \in Tables}
  /\ geo = NoGeo

PageNext ==
  \/ \E cursor \in Cursors, limit \in Limits : GetNotifications(cursor, limit)
  \/ \E cursor \in Cursors, limit \in Limits : GetFeed(cursor, limit)
  \/ \E cursor \in Cursors, limit \in Limits : GetConversation(cursor, limit)
  \/ \E cursor \in Cursors, limit \in Limits : GetRuns(cursor, limit)

PageSpec == PageInit /\ [][PageNext]_vars

----------------------------------------------------------------------------
(* GET /nearby, with POST /me/location and PATCH /me.  The query centre is *)
(* on the equator; a position is <<metres north, metres east>> of it, and  *)
(* over these few kilometres the Haversine distance is the plane distance. *)
(* Time passes in steps of 24 hours.                                       *)

Positions ==
  { <<4900, 0>>, <<3000, 4003>>, <<3060, 4080>> }

Radii == {5000}

Abs(x) == IF x < 0 THEN 0 - x ELSE x

(* calculateDistance, squared, in square metres *)
CalculateDistanceSq(pos) == pos[1] * pos[1] + pos[2] * pos[2]

(* Math.round(distance * 100), the distance in 1/100 km: the k with        *)
(* k - 0.5 <= distance * 100 < k + 0.5                                     *)
RoundedDistance(pos) ==
  LET sq == CalculateDistanceSq(pos) IN
  CHOOSE k \in 0..((Abs(pos[1]) + Abs(pos[2])) \div 10 + 1) :
    /\ k = 0 \/ (10 * k - 5) * (10 * k - 5) <= sq
    /\ sq < (10 * k + 5) * (10 * k + 5)

(* latitude and longitude within lat +- latDelta, lng +- lngDelta; on the  *)
(* equator both deltas are the radius                                      *)
InBoundingBox(pos, radius) == Abs(pos[1]) <= radius /\ Abs(pos[2]) <= radius

(* the where clause without the lastLocationUpdate condition *)
NearbyCandidates_AnyAge(people, caller, radius) ==
  {u \in GeoUsers \ {caller} :
     /\ people[u].isPublic
     /\ people[u].isLocationPublic
     /\ people[u].pos # NoPos
     /\ InBoundingBox(people[u].pos, radius)}

(* prisma.user.findMany({ where: ... }) *)
NearbyCandidates(people, caller, radius) ==
  {u \in GeoUsers \ {caller} :
     /\ people[u].isPublic
     /\ people[u].isLocationPublic
     /\ people[u].pos # NoPos
     /\ InBoundingBox(people[u].pos, radius)
     /\ people[u].age # Undef
     /\ people[u].age <= 24}

(* .sort((a, b) => a.distance - b.distance) *)
RECURSIVE SortByDistance(_)
SortByDistance(S) ==
  IF S = {} THEN <<>>
  ELSE LET m == CHOOSE x \in S : \A y \in S : x.distance <= y.distance
       IN <<m>> \o SortByDistance(S \ {m})

(* .map(... distance: Math.round(distance * 100) / 100 ...)                *)
(* .filter((user) => user.distance <= radiusKm).sort(...)                  *)
NearbyUsers(people, caller, radius) ==
  SortByDistance(
    {r \in {[id |-> u, distance |-> RoundedDistance(people[u].pos)] :
              u \in NearbyCandidates(people, caller, radius)} :
       r.distance * 10 <= radius})

GeoStep(g) ==
  /\ geo' = g
  /\ UNCHANGED <<users, runs, userAchievements, achievements, notifications,
                 clock, nextRunId, procs, requests, pager>>

UpdateLocation(u, pos) ==
  GeoStep([geo EXCEPT !.people[u].pos = pos, !.people[u].age = 0,
                      !.caller = "", !.radius = 0, !.result = <<>>])

UpdateProfile(u, isPublic, isLocationPublic) ==
  GeoStep([geo EXCEPT !.people[u].isPublic = isPublic,
                      !.people[u].isLocationPublic = isLocationPublic,
                      !.caller = "", !.radius = 0, !.result = <<>>])

Tick ==
  /\ \A u \in GeoUsers : geo.people[u].age # Undef => geo.people[u].age + 24 <= MaxAge
  /\ \E u \in GeoUsers : geo.people[u].age # Undef
  /\ GeoStep([geo EXCEPT !.people = [u \in GeoUsers |->
                                       IF @[u].age = Undef THEN @[u]
                                       ELSE [@[u] EXCEPT !.age = @ + 24]],
                         !.caller = "", !.radius = 0, !.result = <<>>])

Nearby(caller, radius) ==
  GeoStep([geo EXCEPT !.caller = caller, !.radius = radius,
                      !.result = NearbyUsers(geo.people, caller, radius)])

NearbyNext ==
  \/ \E u \in GeoUsers, pos \in Positions : UpdateLocation(u, pos)
  \/ \E u \in GeoUsers, f \in {<<TRUE, TRUE>>, <<FALSE, TRUE>>, <<TRUE, FALSE>>} :
        UpdateProfile(u, f[1], f[2])
  \/ Tick
  \/ \E caller \in GeoUsers, radius \in Radii : Nearby(caller, radius)

NearbySpec == Init /\ [][NearbyNext]_vars

----------------------------------------------------------------------------
(* What the stored runs and achievements account for *)

CompletedRuns(u) ==
  {id \in DOMAIN runs : runs[id].userId = u /\ runs[id].isCompleted}

RECURSIVE SumDistance(_)
SumDistance(S) ==
  IF S = {} THEN 0
  ELSE LET id == CHOOSE x \in S : TRUE
       IN runs[id].distance + SumDistance(S \ {id})

RECURSIVE SumDuration(_)
SumDuration(S) ==
  IF S = {} THEN 0
  ELSE LET id == CHOOSE x \in S : TRUE
       IN runs[id].duration + SumDuration(S \ {id})

RECURSIVE SumDistanceXp(_)
SumDistanceXp(S) ==
  IF S = {} THEN 0
  ELSE LET id == CHOOSE x \in S : TRUE
       IN (runs[id].distance \div 10) + SumDistanceXp(S \ {id})

Unlocked(u) == {a \in AchIds : userAchievements[<<u, a>>].unlockedAt # Null}

RECURSIVE SumRewards(_)
SumRewards(S) ==
  IF S = {} THEN 0
  ELSE LET a == CHOOSE x \in S : TRUE
       IN Achievement(a).xpReward + SumRewards(S \ {a})

RunCompletedCount(u, id) ==
  CopiesIn(Notification(u, "RUN_COMPLETED", "Run Completed", id, Null, 0),
           notifications)

AwardCount(u, a) ==
  CopiesIn(Notification(u, "ACHIEVEMENT", "Achievement Unlocked!", Null, a, 0),
           notifications)

Aggregates(user) ==
  <<user.totalDistance, user.totalRuns, user.totalTime, user.xp, user.level>>

Quiet == \A p \in Procs : procs[p].pc \in {"idle", "done"}

----------------------------------------------------------------------------
(* C1: with requests served one at a time, each user's totalDistance,      *)
(* totalRuns and totalTime are the sum of distance, the number, and the    *)
(* sum of duration of that user's stored completed runs.                   *)
C1_AggregatesMatchRuns ==
  \A u \in Users :
    /\ users[u].totalDistance = SumDistance(CompletedRuns(u))
    /\ users[u].totalRuns = Cardinality(CompletedRuns(u))
    /\ users[u].totalTime = SumDuration(CompletedRuns(u))

(* a completed run was deleted and another completed run of the user stays *)
C1_Witness ==
  \E u \in Users, id \in 1..MaxRuns :
    /\ id \notin DOMAIN runs
    /\ RunCompletedCount(u, id) = 1
    /\ users[u].totalRuns = 1
    /\ users[u].totalDistance > 0
    /\ users[u].totalTime > 0

(* C2: completing a run and then deleting it gives the owner back the      *)
(* totalDistance, totalRuns, totalTime, xp and level held before the       *)
(* completion.                                                             *)
C2_CompleteThenDeleteRestores ==
  procs[1].pc = "idle" =>
    \A u \in Users, id \in DOMAIN runs, b \in CompleteBodies,
       order \in FindManyOrders(achievements) :
      LET c == Handle(DB, NewReq("complete", "complete", u, id, b, order))
          x == Handle(c.db, NewReq("delete", "delete", u, id, NoBody, <<>>))
      IN c.loc.status = 200 =>
           /\ x.loc.status = 200
           /\ Aggregates(x.db.users[u]) = Aggregates(users[u])

(* C3: after every operation that changes xp, level is floor(xp/1000) + 1. *)
C3_LevelFollowsXp ==
  Quiet => \A u \in Users : users[u].level = NewLevel(users[u].xp)

(* C4: once unlockedAt is set, no later evaluation changes that            *)
(* UserAchievement (unlockedAt, progress), and xp holds the reward of each *)
(* unlocked achievement once, next to the distance XP of the stored        *)
(* completed runs.                                                         *)
C4_UnlockOnce ==
  /\ [][\A k \in Users \X AchIds :
          userAchievements[k].unlockedAt # Null =>
            userAchievements'[k] = userAchievements[k]]_vars
  /\ [](\A u \in Users :
          /\ users[u].xp = SumDistanceXp(CompletedRuns(u)) + SumRewards(Unlocked(u))
          /\ \A a \in AchIds : AwardCount(u, a) <= 1)

(* an achievement unlocked by the first completion, after a second         *)
(* completion by the same user has been evaluated                          *)
C4_Witness ==
  \E u \in Users, a \in AchIds :
    /\ userAchievements[<<u, a>>].unlockedAt = 1
    /\ clock = 2
    /\ users[u].totalRuns = 2
    /\ AwardCount(u, a) = 1

(* C5: of two concurrent complete requests for one run only one succeeds:  *)
(* the run is reported completed once and counted once.                    *)
C5_OneCompletionPerRun ==
  \A u \in Users, id \in 1..MaxRuns : RunCompletedCount(u, id) <= 1

(* C6: two evaluations for one user, started by the completion of two      *)
(* different runs, award an achievement once.                              *)
C6_OneAwardPerAchievement ==
  \A p, q \in Procs :
    ( /\ p # q
      /\ procs[p].op = "complete" /\ procs[q].op = "complete"
      /\ procs[p].pc \notin {"idle", "done"}
      /\ procs[q].pc \notin {"idle", "done"}
      /\ procs[p].userId = procs[q].userId
      /\ procs[p].id # procs[q].id )
    => \A a \in AchIds : AwardCount(procs[p].userId, a) <= 1

(* C7: a call of pause, addCoordinates or complete on a COMPLETED run is   *)
(* refused as an invalid state and changes nothing, and a COMPLETED run    *)
(* never changes while it is stored.                                       *)
InvalidStateErrors ==
  {"Run is already completed", "Cannot add coordinates to completed run"}

CallsOnRun(u, id) ==
  {NewReq("pause", "pause", u, id, NoBody, <<>>)}
  \cup {NewReq("coordinates", "coords", u, id, b, <<>>) :
          b \in {c \in CoordBodies : CoordsValid(c)}}
  \cup {NewReq("complete", "complete", u, id, b, Ascending(achievements)) :
          b \in {c \in CompleteBodies : CompleteValid(c)}}

C7_CompletedIsTerminal ==
  /\ [](procs[1].pc = "idle" =>
          \A id \in DOMAIN runs :
            runs[id].isCompleted =>
              \A req \in CallsOnRun(runs[id].userId, id) :
                LET r == Handle(DB, req)
                IN /\ r.loc.status = 400
                   /\ r.loc.error \in InvalidStateErrors
                   /\ r.db = DB)
  /\ [][\A id \in DOMAIN runs :
          (runs[id].isCompleted /\ id \in DOMAIN runs') => runs'[id] = runs[id]]_vars

(* a completed run with coordinates on which a call has just been refused  *)
C7_Witness ==
  \E id \in DOMAIN runs :
    /\ runs[id].isCompleted
    /\ runs[id].coordinates # <<>>
    /\ procs[1].pc = "done"
    /\ procs[1].op = "coordinates"
    /\ procs[1].error = "Cannot add coordinates to completed run"

(* C8: currentRunId is absent or names a stored, non-completed run of the  *)
(* user.                                                                   *)
C8_CurrentRunIsActive ==
  \A u \in Users :
    \/ users[u].currentRunId = Null
    \/ /\ users[u].currentRunId \in DOMAIN runs
       /\ runs[users[u].currentRunId].userId = u
       /\ ~runs[users[u].currentRunId].isCompleted

(* C9: after two different runs of a user were completed concurrently, the *)
(* aggregates are the contributions of both runs, and xp those plus the    *)
(* reward of each achievement unlocked.                                    *)
C9_NoLostUpdate ==
  ( /\ Quiet
    /\ DOMAIN runs = 1..(nextRunId - 1)
    /\ \A u \in Users, id \in DOMAIN runs : RunCompletedCount(u, id) <= 1 )
  => \A u \in Users :
       /\ users[u].totalDistance = SumDistance(CompletedRuns(u))
       /\ users[u].totalRuns = Cardinality(CompletedRuns(u))
       /\ users[u].totalTime = SumDuration(CompletedRuns(u))
       /\ users[u].xp = SumDistanceXp(CompletedRuns(u)) + SumRewards(Unlocked(u))

(* C10: no state, between the steps of requests either, shows a level      *)
(* other than floor(xp/1000) + 1.                                          *)
C10_NoTornLevel ==
  \A u \in Users : users[u].level = (users[u].xp \div 1000) + 1


----------------------------------------------------------------------------
(* C11: when emitting a notification fails during complete, complete still *)
(* answers success and does everything else it does without the failure:   *)
(* the run, the user records and the achievement rows end up the same.     *)
C11_NotificationFailureSwallowed ==
  procs[1].pc = "idle" =>
    \A u \in Runners, id \in DOMAIN runs, b \in FailCompleteBodies,
       f \in NotifyPoints :
      LET ok == Handle(DB, CompleteReq(u, id, b, Ascending(achievements), "none"))
          ko == Handle(DB, CompleteReq(u, id, b, Ascending(achievements), f))
      IN ok.loc.status = 200 =>
           /\ ko.loc.status = 200
           /\ ko.db.runs = ok.db.runs
           /\ ko.db.users = ok.db.users
           /\ ko.db.userAchievements = ok.db.userAchievements

(* C12: when achievement evaluation or a notification fails after the run  *)
(* was set COMPLETED and the aggregates were updated, the run stays        *)
(* COMPLETED with its metrics, the increments stay applied, and no unlock  *)
(* or notification written before is taken back.                           *)
C12_NothingUndone ==
  [][ ( /\ procs[1].pc = "idle"
        /\ procs'[1].op = "complete"
        /\ procs'[1].status = 500
        /\ procs'[1].error \in AfterCommitPoints )
      => /\ \E id \in DOMAIN runs :
              LET u == runs[id].userId IN
              /\ ~runs[id].isCompleted
              /\ id \in DOMAIN runs'
              /\ runs'[id].isCompleted
              /\ runs'[id].distance > 0
              /\ runs'[id].duration > 0
              /\ users'[u].totalDistance = users[u].totalDistance + runs'[id].distance
              /\ users'[u].totalRuns = users[u].totalRuns + 1
              /\ users'[u].totalTime = users[u].totalTime + runs'[id].duration
              /\ users'[u].xp >= users[u].xp + (runs'[id].distance \div 10)
         /\ \A id \in DOMAIN runs :
              runs[id].isCompleted => (id \in DOMAIN runs' /\ runs'[id] = runs[id])
         /\ \A k \in Users \X AchIds :
              userAchievements[k].unlockedAt # Null =>
                userAchievements'[k] = userAchievements[k]
         /\ notifications \sqsubseteq notifications' ]_vars

(* the award of a reward failed after the unlock row was written: the run  *)
(* is COMPLETED, the aggregates count it, the unlock is stored              *)
C12_Witness ==
  /\ procs[1].pc = "done"
  /\ procs[1].op = "complete"
  /\ procs[1].status = 500
  /\ procs[1].error = "ach_award"
  /\ \E id \in DOMAIN runs :
       /\ runs[id].isCompleted
       /\ users[runs[id].userId].totalRuns = 1
       /\ users[runs[id].userId].totalDistance = runs[id].distance
       /\ \E a \in AchIds : userAchievements[<<runs[id].userId, a>>].unlockedAt # Null

(* C13: whichever call of complete fails, a COMPLETED run's distance,      *)
(* count and duration are in its owner's aggregates: no COMPLETED run is   *)
(* left behind with its contribution missing.                              *)
C13_CompleteAtomic ==
  \A u \in Users :
    /\ users[u].totalRuns >= Cardinality(CompletedRuns(u))
    /\ users[u].totalDistance >= SumDistance(CompletedRuns(u))
    /\ users[u].totalTime >= SumDuration(CompletedRuns(u))


----------------------------------------------------------------------------
(* C14: pause/resume, addCoordinates, complete and delete called with a    *)
(* run id that is not stored or that belongs to another user answer        *)
(* "Run not found" and change nothing.                                     *)
CallsOnRunOrDelete(u, id) ==
  CallsOnRun(u, id) \cup {NewReq("delete", "delete", u, id, NoBody, <<>>)}

C14_NotFoundChangesNothing ==
  procs[1].pc = "idle" =>
    \A u \in Users, id \in RunIds :
      (id \notin DOMAIN runs \/ runs[id].userId # u) =>
        \A req \in CallsOnRunOrDelete(u, id) :
          LET r == Handle(DB, req)
          IN /\ r.loc.status = 404
             /\ r.loc.error = "Run not found"
             /\ r.db = DB

(* every run id is stored, one of the runs is completed, and a delete was  *)
(* just answered "Run not found": it came from a user who does not own it  *)
C14_Witness ==
  /\ DOMAIN runs = RunIds
  /\ \E id \in DOMAIN runs : runs[id].isCompleted
  /\ procs[1].pc = "done"
  /\ procs[1].op = "delete"
  /\ procs[1].status = 404


----------------------------------------------------------------------------
(* C15: a successful complete with distance d and duration t adds d to     *)
(* totalDistance, 1 to totalRuns, t to totalTime and floor(10*d) to xp,    *)
(* and unlocks exactly the rules not unlocked before that the updated      *)
(* aggregates (or the run) satisfy, adding the xpReward of each; from      *)
(* totalDistance 0 and xp 0, completing 5 km with the single 5 km          *)
(* TOTAL_DISTANCE rule worth 100 XP gives totalDistance 5, totalRuns 1,    *)
(* xp 150, level 1.                                                        *)
C15_CompleteAddsContribution ==
  /\ [](procs[1].pc = "idle" =>
          \A u \in Runners, id \in DOMAIN runs :
            ( /\ achievements = {2}
              /\ runs[id].userId = u
              /\ ~runs[id].isCompleted
              /\ users[u].totalDistance = 0
              /\ users[u].totalRuns = 0
              /\ users[u].xp = 0
              /\ users[u].level = 1 )
            => LET r == Handle(DB, NewReq("complete", "complete", u, id, FiveKm,
                                          Ascending(achievements)))
               IN /\ r.loc.status = 200
                  /\ r.db.users[u].totalDistance = 500
                  /\ r.db.users[u].totalRuns = 1
                  /\ r.db.users[u].xp = 150
                  /\ r.db.users[u].level = 1)
  /\ [][ ( /\ procs[1].pc = "idle"
           /\ procs'[1].op = "complete"
           /\ procs'[1].status = 200 )
         => \E id \in DOMAIN runs :
              LET u   == runs[id].userId
                  d   == runs'[id].distance
                  t   == runs'[id].duration
                  new == {a \in achievements :
                            /\ userAchievements[<<u, a>>].unlockedAt = Null
                            /\ CASE Achievement(a).type = "TOTAL_DISTANCE" ->
                                      users[u].totalDistance + d >= Achievement(a).threshold
                                 [] Achievement(a).type = "TOTAL_RUNS" ->
                                      users[u].totalRuns + 1 >= Achievement(a).threshold
                                 [] Achievement(a).type = "SINGLE_RUN_DISTANCE" ->
                                      d >= Achievement(a).threshold
                                 [] Achievement(a).type = "SINGLE_RUN_PACE" ->
                                      /\ runs'[id].avgPace > 0
                                      /\ runs'[id].avgPace <= Achievement(a).threshold}
              IN /\ ~runs[id].isCompleted
                 /\ runs'[id].isCompleted
                 /\ users'[u].totalDistance = users[u].totalDistance + d
                 /\ users'[u].totalRuns = users[u].totalRuns + 1
                 /\ users'[u].totalTime = users[u].totalTime + t
                 /\ users'[u].xp = users[u].xp + (d \div 10) + SumRewards(new)
                 /\ \A a \in AchIds :
                      userAchievements'[<<u, a>>].unlockedAt # Null
                        <=> (userAchievements[<<u, a>>].unlockedAt # Null \/ a \in new)
     ]_vars

(* the scenario: only the 5 km TOTAL_DISTANCE rule, first run, 5 km *)
C15_Witness ==
  /\ achievements = {2}
  /\ procs[1].pc = "done"
  /\ procs[1].op = "complete"
  /\ procs[1].status = 200
  /\ users["u1"].totalDistance = 500
  /\ users["u1"].totalRuns = 1
  /\ users["u1"].xp = 150
  /\ users["u1"].level = 1
  /\ userAchievements[<<"u1", 2>>].unlockedAt # Null


----------------------------------------------------------------------------
(* C16: after a completion that unlocks an achievement, deleting the run   *)
(* puts totalDistance, totalRuns and xp back to what they were before the  *)
(* completion and leaves unlockedAt set; completing another qualifying run *)
(* afterwards leaves the unlock as it is and awards its XP no second time. *)
C16_DeleteKeepsUnlock ==
  procs[1].pc = "idle" =>
    \A u \in Runners, id \in DOMAIN runs, b \in RewardBodies :
      LET order == Ascending(achievements)
          c     == Handle(DB, NewReq("complete", "complete", u, id, b, order))
          x     == Handle(c.db, NewReq("delete", "delete", u, id, NoBody, <<>>))
          new   == {a \in AchIds :
                      /\ userAchievements[<<u, a>>].unlockedAt = Null
                      /\ c.db.userAchievements[<<u, a>>].unlockedAt # Null}
      IN (c.loc.status = 200 /\ new # {}) =>
           /\ x.loc.status = 200
           /\ x.db.users[u].totalDistance = users[u].totalDistance
           /\ x.db.users[u].totalRuns = users[u].totalRuns
           /\ x.db.users[u].xp = users[u].xp
           /\ \A a \in new :
                x.db.userAchievements[<<u, a>>] = c.db.userAchievements[<<u, a>>]
           /\ \A id2 \in DOMAIN x.db.runs, b2 \in RewardBodies :
                LET y == Handle(x.db, NewReq("complete", "complete", u, id2, b2, order))
                IN y.loc.status = 200 =>
                     \A a \in new :
                       /\ y.db.userAchievements[<<u, a>>] = c.db.userAchievements[<<u, a>>]
                       /\ CopiesIn(Notification(u, "ACHIEVEMENT", "Achievement Unlocked!",
                                                Null, a, 0), y.db.notifications) = 1


----------------------------------------------------------------------------
(* C17: a successful complete emits exactly one level-up notification,     *)
(* carrying the level the user holds after it, when that level is higher   *)
(* than the one held before (however many thresholds were crossed), and    *)
(* no level-up notification when the level did not rise.                   *)
C17_OneLevelUpNotification ==
  [][ ( /\ procs[1].pc = "idle"
        /\ procs'[1].op = "complete"
        /\ procs'[1].status = 200 )
      => \A u \in Users :
           LET emitted  == notifications' (-) notifications
               levelUps == {n \in BagToSet(emitted) :
                              n.userId = u /\ n.title = "Level Up!"}
           IN IF users'[u].level > users[u].level
              THEN \E n \in levelUps :
                     /\ levelUps = {n}
                     /\ CopiesIn(n, emitted) = 1
                     /\ n.level = users'[u].level
              ELSE levelUps = {} ]_vars

(* a completion took the user from level 2 past levels 3 and 4 to level 5  *)
(* and the notification carries 5                                          *)
C17_Witness ==
  /\ procs[1].pc = "done"
  /\ procs[1].op = "complete"
  /\ procs[1].status = 200
  /\ users["u1"].level = 5
  /\ BagIn(Notification("u1", "ACHIEVEMENT", "Level Up!", 1, Null, 2), notifications)
  /\ BagIn(Notification("u1", "ACHIEVEMENT", "Level Up!", 2, Null, 5), notifications)


----------------------------------------------------------------------------
(* C18: a user's totalDistance, totalRuns, totalTime and xp are never      *)
(* negative, also when delete requests for the same completed run          *)
(* interleave or repeat.                                                   *)
C18_NeverNegative ==
  \A u \in Users :
    /\ users[u].totalDistance >= 0
    /\ users[u].totalRuns >= 0
    /\ users[u].totalTime >= 0
    /\ users[u].xp >= 0


----------------------------------------------------------------------------
(* C19: with the rows unchanged and a limit of at least 1, the pages of    *)
(* the notifications list and of the feed, put together from a request     *)
(* without cursor on by passing each returned nextCursor, hold rows of the *)
(* result set only, newest first, none twice, and all of them once         *)
(* nextCursor is absent.                                                   *)
CreatedAt(id) == (CHOOSE r \in pager.table : r.id = id).createdAt

C20_PageAfterCursor ==
  pager.status = 200 =>
    /\ Len(pager.items) <= pager.limit
    /\ \A i \in 1..Len(pager.items) :
         \E r \in pager.table : r.id = pager.items[i]
    /\ (pager.cursor # Null /\ \E r \in pager.table : r.id = pager.cursor) =>
         \A i \in 1..Len(pager.items) :
           /\ pager.items[i] # pager.cursor
           /\ CreatedAt(pager.items[i]) < CreatedAt(pager.cursor)


----------------------------------------------------------------------------
(* C21: every list operation taking a cursor, the run history included,    *)
(* answers as nextCursor the id of the last item of the page (the oldest   *)
(* one) when the page holds exactly limit items, and no nextCursor when it *)
(* holds fewer.                                                            *)
C21_NextCursorIsLastItem ==
  (pager.status = 200 /\ pager.limit >= 1) =>
    /\ Len(pager.items) = pager.limit =>
         /\ pager.nextCursor \in {pager.items[i] : i \in 1..Len(pager.items)}
         /\ \A i \in 1..Len(pager.items) :
              CreatedAt(pager.nextCursor) <= CreatedAt(pager.items[i])
    /\ Len(pager.items) < pager.limit => ~Truthy(pager.nextCursor)


----------------------------------------------------------------------------
(* C22: nearby never returns a user whose true, unrounded distance from    *)
(* the centre is greater than the radius.                                  *)
C22_WithinTrueRadius ==
  \A i \in 1..Len(geo.result) :
    CalculateDistanceSq(geo.people[geo.result[i].id].pos) <= geo.radius * geo.radius


----------------------------------------------------------------------------
(* C30: nearby never returns the calling user, a user with isPublic false, *)
(* a user with isLocationPublic false, or a user whose last location       *)
(* update is older than 24 hours.                                          *)
C30_NearbyFilters ==
  \A i \in 1..Len(geo.result) :
    LET u == geo.result[i].id IN
    /\ u # geo.caller
    /\ geo.people[u].isPublic
    /\ geo.people[u].isLocationPublic
    /\ geo.people[u].age # Undef
    /\ geo.people[u].age <= 24

(* the caller and two others all stand 4.9 km from the centre; one of the  *)
(* others updated their location 48 hours ago; only the third is returned  *)
C30_Witness ==
  /\ geo.caller = "u1"
  /\ \A u \in GeoUsers :
       /\ geo.people[u].pos = <<4900, 0>>
       /\ geo.people[u].isPublic
       /\ geo.people[u].isLocationPublic
  /\ geo.people["u1"].age = 0
  /\ geo.people["u2"].age = 24
  /\ geo.people["u3"].age = 48
  /\ Len(geo.result) = 1
  /\ geo.result[1].id = "u2"


----------------------------------------------------------------------------
(* C23: the evaluation of a completion unlocks a rule not unlocked before  *)
(* exactly when its condition holds: TOTAL_DISTANCE when the updated       *)
(* totalDistance >= threshold, TOTAL_RUNS when the updated totalRuns >=    *)
(* threshold, SINGLE_RUN_DISTANCE when this run's distance >= threshold,   *)
(* SINGLE_RUN_PACE when 0 < this run's avgPace <= threshold.               *)
C23_UnlockIffCondition ==
  [][ ( /\ procs[1].pc = "idle"
        /\ procs'[1].op = "complete"
        /\ procs'[1].status = 200 )
      => \E id \in DOMAIN runs :
           LET u    == runs[id].userId
               rule == [a \in AchIds |-> Achievement(a)]
           IN /\ ~runs[id].isCompleted
              /\ runs'[id].isCompleted
              /\ \A a \in achievements :
                   userAchievements[<<u, a>>].unlockedAt = Null =>
                     ( userAchievements'[<<u, a>>].unlockedAt # Null
                       <=> \/ /\ rule[a].type = "TOTAL_DISTANCE"
                              /\ users'[u].totalDistance >= rule[a].threshold
                           \/ /\ rule[a].type = "TOTAL_RUNS"
                              /\ users'[u].totalRuns >= rule[a].threshold
                           \/ /\ rule[a].type = "SINGLE_RUN_DISTANCE"
                              /\ runs'[id].distance >= rule[a].threshold
                           \/ /\ rule[a].type = "SINGLE_RUN_PACE"
                              /\ 0 < runs'[id].avgPace
                              /\ runs'[id].avgPace <= rule[a].threshold ) ]_vars

(* a run with avgPace 0 was completed: the run-count rule is unlocked, the *)
(* pace rule was evaluated and is not                                      *)
C23_Witness ==
  /\ procs[1].pc = "done"
  /\ procs[1].op = "complete"
  /\ procs[1].status = 200
  /\ \E id \in DOMAIN runs :
       /\ runs[id].isCompleted
       /\ runs[id].avgPace = 0
       /\ userAchievements[<<runs[id].userId, 1>>].unlockedAt # Null
       /\ userAchievements[<<runs[id].userId, 4>>].unlockedAt = Null
       /\ userAchievements[<<runs[id].userId, 4>>].exists


----------------------------------------------------------------------------
(* C24: one evaluation pass gives the same unlocked achievements, the same *)
(* progress and unlockedAt of every UserAchievement and the same XP        *)
(* awarded, in whatever order achievement.findMany() returns the rules.    *)
AllOrders(S) ==
  {o \in [1..Cardinality(S) -> S] :
     \A i, j \in 1..Cardinality(S) : i # j => o[i] # o[j]}

C24_OrderIndependent ==
  procs[1].pc = "idle" =>
    \A u \in Runners, id \in DOMAIN runs, b \in RewardBodies :
      LET first == Handle(DB, NewReq("complete", "complete", u, id, b,
                                     Ascending(achievements)))
      IN \A order \in AllOrders(achievements) :
           LET other == Handle(DB, NewReq("complete", "complete", u, id, b, order))
           IN /\ other.loc.status = first.loc.status
              /\ other.db.userAchievements = first.db.userAchievements
              /\ other.db.users = first.db.users
              /\ other.db.notifications = first.db.notifications

(* a completion after which three rules were unlocked in the same pass *)
C24_Witness ==
  /\ procs[1].pc = "done"
  /\ procs[1].op = "complete"
  /\ procs[1].status = 200
  /\ achievements = {1, 2, 3, 4}
  /\ \E S \in SUBSET AchIds :
       /\ Cardinality(S) = 3
       /\ \A a \in S : userAchievements[<<"u1", a>>].unlockedAt = clock


----------------------------------------------------------------------------
(* C25: a complete request with a negative distance or duration, and an    *)
(* addCoordinates request with a latitude outside [-90, 90] or a longitude *)
(* outside [-180, 180], is answered with a validation error and changes    *)
(* nothing: the run, the aggregates and the location stay as they were.    *)
NegativeCompleteBodies ==
  { [NoBody EXCEPT !.distance = -100, !.duration = 60],
    [NoBody EXCEPT !.distance = 305, !.duration = -60],
    [NoBody EXCEPT !.distance = -1, !.duration = -1] }

OutOfRangeCoordBodies ==
  { [NoBody EXCEPT !.coordinates = <<Coord(91, 34, Undef)>>],
    [NoBody EXCEPT !.coordinates = <<Coord(-91, 34, Undef)>>],
    [NoBody EXCEPT !.coordinates = <<Coord(12, 181, Undef)>>],
    [NoBody EXCEPT !.coordinates = <<Coord(12, -181, Undef)>>],
    [NoBody EXCEPT !.coordinates = <<Coord(12, 34, Undef), Coord(12, 181, Undef)>>] }

InvalidCalls(u, id) ==
  {NewReq("complete", "complete", u, id, b, Ascending(achievements)) :
     b \in NegativeCompleteBodies}
  \cup {NewReq("coordinates", "coords", u, id, b, <<>>) :
          b \in OutOfRangeCoordBodies}

C25_InvalidInputRejected ==
  procs[1].pc = "idle" =>
    \A u \in Users, id \in RunIds :
      \A req \in InvalidCalls(u, id) :
        LET r == Handle(DB, req)
        IN /\ r.loc.status = 400
           /\ r.loc.error = "Validation failed"
           /\ r.db = DB

(* a completion with a negative distance was just refused for the owner of *)
(* a run that is still active                                              *)
C25_Witness ==
  /\ procs[1].pc = "done"
  /\ procs[1].op = "complete"
  /\ procs[1].status = 400
  /\ procs[1].error = "Validation failed"
  /\ DOMAIN runs = RunIds
  /\ \A id \in DOMAIN runs : ~runs[id].isCompleted /\ runs[id].coordinates # <<>>
  /\ users["u1"].totalRuns = 0


----------------------------------------------------------------------------
(* C26: start creates a new non-completed, non-paused run owned by the     *)
(* caller and sets the caller's isCurrentlyRunning and currentRunId; when  *)
(* a location is given, latitude or longitude 0 included, it is the run's  *)
(* first coordinate and the user's last-known location.                    *)
C26_StartRecordsLocation ==
  (procs[1].pc = "idle" /\ nextRunId <= MaxRuns) =>
    \A u \in Runners, b \in StartBodies :
      LET r  == Handle(DB, NewReq("start", "start", u, Null, b, <<>>))
          id == nextRunId
      IN /\ r.loc.status = 200
         /\ DOMAIN r.db.runs = DOMAIN runs \cup {id}
         /\ id \notin DOMAIN runs
         /\ r.db.runs[id].userId = u
         /\ ~r.db.runs[id].isCompleted
         /\ ~r.db.runs[id].isPaused
         /\ r.db.users[u].isCurrentlyRunning
         /\ r.db.users[u].currentRunId = id
         /\ (b.latitude # Undef /\ b.longitude # Undef) =>
              /\ r.db.runs[id].coordinates = <<Coord(b.latitude, b.longitude, Undef)>>
              /\ r.db.users[u].latitude = b.latitude
              /\ r.db.users[u].longitude = b.longitude


----------------------------------------------------------------------------
(* C27: a successful addCoordinates on a non-completed run appends the     *)
(* coordinates of the batch in the order supplied, keeps the coordinates   *)
(* stored before, sets the owner's last-known location to the last         *)
(* coordinate of the batch, and changes no aggregate and no run metric.    *)
C27_CoordinatesAppended ==
  procs[1].pc = "idle" =>
    \A id \in DOMAIN runs, b \in {c \in CoordBodies : CoordsValid(c)} :
      ~runs[id].isCompleted =>
        LET u     == runs[id].userId
            r     == Handle(DB, NewReq("coordinates", "coords", u, id, b, <<>>))
            old   == runs[id].coordinates
            new   == r.db.runs[id].coordinates
            batch == b.coordinates
        IN /\ r.loc.status = 200
           /\ Len(new) = Len(old) + Len(batch)
           /\ SubSeq(new, 1, Len(old)) = old
           /\ \A i \in 1..Len(batch) :
                /\ new[Len(old) + i].latitude = batch[i].latitude
                /\ new[Len(old) + i].longitude = batch[i].longitude
           /\ r.db.users[u].latitude = batch[Len(batch)].latitude
           /\ r.db.users[u].longitude = batch[Len(batch)].longitude
           /\ r.db.users = [users EXCEPT ![u].latitude = batch[Len(batch)].latitude,
                                         ![u].longitude = batch[Len(batch)].longitude]
           /\ r.db.runs = [runs EXCEPT ![id].coordinates = new]
           /\ r.db.userAchievements = userAchievements
           /\ r.db.notifications = notifications

(* a batch of two coordinates at different places was just stored on an    *)
(* active run, and the owner stands at the second                          *)
C27_Witness ==
  /\ procs[1].pc = "done"
  /\ procs[1].op = "coordinates"
  /\ procs[1].status = 200
  /\ \E id \in DOMAIN runs :
       /\ ~runs[id].isCompleted
       /\ Len(runs[id].coordinates) = 2
       /\ runs[id].coordinates[1].latitude = 13
       /\ runs[id].coordinates[2].latitude = 12
       /\ users[runs[id].userId].latitude = 12
       /\ users[runs[id].userId].longitude = 35


(* C28: on a non-completed run each pause/resume call flips isPaused and   *)
(* changes nothing else (run metrics, coordinates, completion state, user  *)
(* record); two successive calls restore the original isPaused value.      *)
C28_PauseFlips ==
  procs[1].pc = "idle" =>
    \A id \in DOMAIN runs :
      ~runs[id].isCompleted =>
        LET u     == runs[id].userId
            req   == NewReq("pause", "pause", u, id, NoBody, <<>>)
            once  == Handle(DB, req)
            twice == Handle(once.db, req)
        IN /\ once.loc.status = 200
           /\ once.db = [DB EXCEPT !.runs[id].isPaused = ~runs[id].isPaused]
           /\ twice.loc.status = 200
           /\ twice.db = DB

(* the only stored run, an active one with a coordinate, has just been     *)
(* resumed: new runs are not paused, so it was paused by a call before     *)
C28_Witness ==
  /\ procs[1].pc = "done"
  /\ procs[1].op = "pause"
  /\ procs[1].status = 200
  /\ Cardinality(DOMAIN runs) = 1
  /\ \A id \in DOMAIN runs :
       /\ ~runs[id].isCompleted
       /\ ~runs[id].isPaused
       /\ runs[id].coordinates # <<>>

(* C29: delete succeeds for the owner whatever the run's state; deleting a *)
(* run that is not completed leaves the owner's totalDistance, totalRuns,  *)
(* totalTime, xp and level unchanged, and deleting a completed run         *)
(* subtracts exactly the run's stored distance, 1, the stored duration and *)
(* floor(10 * stored distance) XP.                                         *)
C29_DeleteSubtractsStoredRun ==
  procs[1].pc = "idle" =>
    \A id \in DOMAIN runs :
      LET u    == runs[id].userId
          run  == runs[id]
          r    == Handle(DB, NewReq("delete", "delete", u, id, NoBody, <<>>))
          was  == users[u]
          user == r.db.users[u]
      IN /\ r.loc.status = 200
         /\ id \notin DOMAIN r.db.runs
         /\ ~run.isCompleted => Aggregates(user) = Aggregates(was)
         /\ run.isCompleted =>
              /\ user.totalDistance = was.totalDistance - run.distance
              /\ user.totalRuns = was.totalRuns - 1
              /\ user.totalTime = was.totalTime - run.duration
              /\ user.xp = was.xp - (run.distance \div 10)
              /\ user.level = was.level

(* the user's only completed run, of non-zero distance, was deleted: the   *)
(* totals are back at zero while an active run of the user is still stored *)
C29_Witness ==
  /\ procs[1].pc = "done"
  /\ procs[1].op = "delete"
  /\ procs[1].status = 200
  /\ \E u \in Users, id \in 1..MaxRuns :
       /\ id \notin DOMAIN runs
       /\ RunCompletedCount(u, id) = 1
       /\ users[u].totalRuns = 0
       /\ users[u].totalDistance = 0
       /\ users[u].totalTime = 0
       /\ \E other \in DOMAIN runs :
            runs[other].userId = u /\ ~runs[other].isCompleted


(* C37: addCoordinates stores every optional field of a coordinate (here   *)
(* speed, which stands for altitude, accuracy, heading and heartRate, all  *)
(* converted by the same expression) with exactly the value the caller     *)
(* supplied, the valid value 0 included, and stores it as absent only when *)
(* the caller left it out.                                                 *)
C37_OptionalFieldsStoredAsSupplied ==
  procs[1].pc = "idle" =>
    \A id \in DOMAIN runs, b \in {c \in CoordBodies : CoordsValid(c)} :
      ~runs[id].isCompleted =>
        LET r     == Handle(DB, NewReq("coordinates", "coords", runs[id].userId,
                                       id, b, <<>>))
            old   == Len(runs[id].coordinates)
            new   == r.db.runs[id].coordinates
            batch == b.coordinates
        IN /\ r.loc.status = 200
           /\ Len(new) = old + Len(batch)
           /\ \A i \in 1..Len(batch) : new[old + i].speed = batch[i].speed


----------------------------------------------------------------------------
(* C31: when an addCoordinates or pause/resume request interleaves with a  *)
(* complete request on the same run, no coordinate is appended to the run  *)
(* and its isPaused flag is not changed after the run has become           *)
(* completed; a completed run always has isPaused = false.                 *)
C31_CompletedRunIsFrozen ==
  /\ [](\A id \in DOMAIN runs : runs[id].isCompleted => ~runs[id].isPaused)
  /\ [][\A id \in DOMAIN runs :
          (runs[id].isCompleted /\ id \in DOMAIN runs')
            => /\ runs'[id].coordinates = runs[id].coordinates
               /\ runs'[id].isPaused = runs[id].isPaused]_vars


(* C32: when two delete requests for the same completed run are processed  *)
(* concurrently, the run's distance, count, duration and distance XP are   *)
(* subtracted from the owner's aggregates at most once: no two requests    *)
(* stand before run.delete having both done the decrement for one run.     *)
C32_SubtractedOnce ==
  \A p, q \in Procs :
    ( /\ p # q
      /\ procs[p].op = "delete" /\ procs[q].op = "delete"
      /\ procs[p].pc = "delete_run" /\ procs[q].pc = "delete_run"
      /\ procs[p].id = procs[q].id )
    => ~(procs[p].run.isCompleted /\ procs[q].run.isCompleted)


(* C33: a user's stored level never decreases: across any interleaving of  *)
(* complete and delete operations every write to level stores a value      *)
(* greater than the level stored at that moment.                           *)
C33_LevelOnlyRises ==
  /\ [][\A u \in Users : users'[u].level >= users[u].level]_vars
  /\ [][\A p \in Procs :
          (procs[p].pc = "complete_level" /\ procs'[p].pc # "complete_level")
            => procs[p].newLevel > users[procs[p].userId].level]_vars


----------------------------------------------------------------------------
(* C34: whenever a user owns at least one stored non-completed run, that   *)
(* user's isCurrentlyRunning is true and currentRunId is present; in       *)
(* particular completing one run while the same user has another run still *)
(* active does not clear them.                                             *)
C34_ActiveRunMeansRunning ==
  \A u \in Users :
    (\E id \in DOMAIN runs : runs[id].userId = u /\ ~runs[id].isCompleted)
      => /\ users[u].isCurrentlyRunning
         /\ users[u].currentRunId # Null


(* C35: in every reachable state a user's isCurrentlyRunning is true       *)
(* exactly when currentRunId is present: start sets both, complete clears  *)
(* both, and no other operation changes either.                            *)
C35_RunningIffCurrentRun ==
  /\ [](\A u \in Users :
          users[u].isCurrentlyRunning <=> users[u].currentRunId # Null)
  /\ [][\A u \in Users :
          ( \/ users'[u].isCurrentlyRunning # users[u].isCurrentlyRunning
            \/ users'[u].currentRunId # users[u].currentRunId )
          => \/ /\ procs'[1].op = "start"
                /\ users'[u].isCurrentlyRunning
                /\ users'[u].currentRunId = nextRunId
                /\ nextRunId \in DOMAIN runs'
             \/ /\ procs'[1].op = "complete"
                /\ ~users'[u].isCurrentlyRunning
                /\ users'[u].currentRunId = Null]_vars

(* a user who started a second run and then completed it: the flags were   *)
(* set twice and cleared once, with coordinates added and a run deleted or *)
(* left active in between                                                  *)
C35_Witness ==
  /\ procs[1].pc = "done"
  /\ procs[1].op = "complete"
  /\ procs[1].status = 200
  /\ nextRunId = 3
  /\ \E u \in Users :
       /\ ~users[u].isCurrentlyRunning
       /\ users[u].currentRunId = Null
       /\ users[u].totalRuns = 1
       /\ 2 \in DOMAIN runs /\ runs[2].userId = u /\ runs[2].isCompleted


----------------------------------------------------------------------------
====
